---- MODULE Spec2Model ----
(***************************************************************************)
(* Telofinder.py: the telomere scan of a sequence text, strand A pass      *)
(* (G/T runs, lines 78-137) followed by strand B pass (C/A runs, lines     *)
(* 141-200), as a state machine.  One step of the machine is one test of   *)
(* an outer `while pos < L`, one iteration of an inner `while pos<L`, or   *)
(* one evaluation of the `# Valid telomere?` statement.                    *)
(*                                                                         *)
(* A text is a sequence of one-character strings; offsets are Python's     *)
(* (0-based), so text[i] of the script is PyAt(text, i) here.              *)
(***************************************************************************)
EXTENDS Integers, Sequences, FiniteSets

VARIABLES
  text,        \* line 68: the whole input, upper-cased
  min_length,  \* line 39: args.min
  pos,         \* lines 75, 139: the cursor shared by the outer and inner loops
  length,      \* line 45
  position,    \* line 46
  trash,       \* line 47 (0 or 1)
  ac,          \* line 48
  gt,          \* line 49
  tt,          \* line 50
  gg,          \* line 51
  index,       \* line 44
  results,     \* line 70: the list of [index, length, position, context]
  pc,          \* the statement the script is at
  hitsA,       \* history: how many records of results the strand A pass appended
  exams,       \* history: how many times the pass at hand ran lines 88 / 151
  swapped      \* "no" while text is the input (always, in the script)

vars == <<text, min_length, pos, length, position, trash, ac, gt, tt, gg,
          index, results, pc, hitsA, exams, swapped>>

----------------------------------------------------------------------------
(* Python's str operations, as the script uses them                         *)

\* len(text), line 76
L == Len(text)

Min(a, b) == IF a < b THEN a ELSE b
Max(a, b) == IF a > b THEN a ELSE b

\* s[i] is defined for -len(s) <= i < len(s); anything else raises IndexError
InRange(s, i) == -Len(s) <= i /\ i < Len(s)

\* s[i] for an index in range: a negative index counts from the end
PyAt(s, i) == IF i >= 0 THEN s[i + 1] ELSE s[Len(s) + i + 1]

\* s.count(c, lo, hi) for lo >= 0: occurrences of c in s[lo:hi], hi clipped
Count(s, c, lo, hi) ==
  Cardinality({k \in lo .. (Min(hi, Len(s)) - 1) : s[k + 1] = c})

\* s[lo:hi] for 0 <= lo and hi <= len(s)
Slice(s, lo, hi) == SubSeq(s, lo + 1, hi)

\* s.replace(c, r) for a single character c and a string r; x is the value
\* of s, taken once, and the result is put together from its two halves
RECURSIVE Replace(_, _, _)
Replace(s, c, r) ==
  CHOOSE out \in
    { IF Len(x) = 0 THEN <<>>
      ELSE IF Len(x) = 1 THEN (IF x[1] = c THEN r ELSE x)
      ELSE LET h == Len(x) \div 2
           IN  Replace(SubSeq(x, 1, h), c, r)
                 \o Replace(SubSeq(x, h + 1, Len(x)), c, r)
      : x \in {s} } : TRUE

\* the ASCII letters, lower case and upper case, in the same order
LowerLetters ==
  <<"a", "b", "c", "d", "e", "f", "g", "h", "i", "j", "k", "l", "m",
    "n", "o", "p", "q", "r", "s", "t", "u", "v", "w", "x", "y", "z">>
UpperLetters ==
  <<"A", "B", "C", "D", "E", "F", "G", "H", "I", "J", "K", "L", "M",
    "N", "O", "P", "Q", "R", "S", "T", "U", "V", "W", "X", "Y", "Z">>

\* str.upper() on one ASCII character: a lower-case letter becomes its
\* upper-case letter, every other character stays as it is
UpperChar(c) ==
  IF \E i \in 1 .. Len(LowerLetters) : LowerLetters[i] = c
  THEN UpperLetters[CHOOSE i \in 1 .. Len(LowerLetters) : LowerLetters[i] = c]
  ELSE c

\* f.read().upper(), lines 60-66
read_all_upper(raw) == [i \in 1 .. Len(raw) |-> UpperChar(raw[i])]

EndOfRead == <<"E", "N", "D", " ", "O", "F", " ", "R", "E", "A", "D">>

----------------------------------------------------------------------------
(* Statements the two passes share word for word                            *)

\* StopRules with the rule tt > 3 setting trash, as the rule gt > 10 does
StopRules_TtIsTrash(len2, gt2, tt2, gg2, valid) ==
  /\ length' = len2
  /\ gt' = gt2
  /\ tt' = tt2
  /\ gg' = gg2
  /\ IF tt2 > 3 THEN trash' = 1 /\ pos' = pos /\ pc' = valid
     ELSE IF gg2 > 5 THEN trash' = trash /\ pos' = pos /\ pc' = valid
     ELSE IF gt2 > 10 THEN trash' = 1 /\ pos' = pos /\ pc' = valid
     ELSE trash' = trash /\ pos' = pos + 1 /\ pc' = pc

\* StopRules with the rule gt > 10 stopping the run without setting trash
StopRules_GtNotTrash(len2, gt2, tt2, gg2, valid) ==
  /\ length' = len2
  /\ gt' = gt2
  /\ tt' = tt2
  /\ gg' = gg2
  /\ trash' = trash
  /\ IF tt2 > 3 \/ gg2 > 5 \/ gt2 > 10
     THEN pos' = pos /\ pc' = valid
     ELSE pos' = pos + 1 /\ pc' = pc

\* StopRules with `pos += 1` before the stop rules
StopRules_AdvancesOnStop(len2, gt2, tt2, gg2, valid) ==
  /\ length' = len2
  /\ gt' = gt2
  /\ tt' = tt2
  /\ gg' = gg2
  /\ pos' = pos + 1
  /\ IF tt2 > 3 THEN trash' = trash /\ pc' = valid
     ELSE IF gg2 > 5 THEN trash' = trash /\ pc' = valid
     ELSE IF gt2 > 10 THEN trash' = 1 /\ pc' = valid
     ELSE trash' = trash /\ pc' = pc

\* StopRules without the rule gg > 5
StopRules_NoGgRule(len2, gt2, tt2, gg2, valid) ==
  /\ length' = len2
  /\ gt' = gt2
  /\ tt' = tt2
  /\ gg' = gg2
  /\ IF tt2 > 3 THEN trash' = trash /\ pos' = pos /\ pc' = valid
     ELSE IF gt2 > 10 THEN trash' = 1 /\ pos' = pos /\ pc' = valid
     ELSE trash' = trash /\ pos' = pos + 1 /\ pc' = pc

\* lines 113-121 (and 176-184): the stop rules after a consumed character,
\* then `pos += 1`.  The arguments are the counters as the branch left them;
\* `valid` is the statement a `break` leads to.
StopRules(len2, gt2, tt2, gg2, valid) ==
  /\ length' = len2
  /\ gt' = gt2
  /\ tt' = tt2
  /\ gg' = gg2
  /\ IF tt2 > 3 THEN trash' = trash /\ pos' = pos /\ pc' = valid
     ELSE IF gg2 > 5 THEN trash' = trash /\ pos' = pos /\ pc' = valid
     ELSE IF gt2 > 10 THEN trash' = 1 /\ pos' = pos /\ pc' = valid
     ELSE trash' = trash /\ pos' = pos + 1 /\ pc' = pc

\* a `break` of the inner loop before the stop rules (lines 105, 111)
Break(valid) ==
  /\ pos' = pos
  /\ pc' = valid
  /\ UNCHANGED <<length, gt, tt, gg>>

\* ValidTelomere with `length >= min_length`
ValidTelomere_AtLeastMin ==
  IF ~(length >= min_length) THEN "no"
  ELSE IF ~(length < 1000) THEN "no"
  ELSE IF ~(trash = 0) THEN "no"
  ELSE IF ~InRange(text, position - 1) THEN "IndexError"
  ELSE IF ~(PyAt(text, position - 1) /= "\n") THEN "no"
  ELSE IF ~InRange(text, position + length + 1) THEN "IndexError"
  ELSE IF ~(PyAt(text, position + length + 1) /= "\n") THEN "no"
  ELSE "yes"

\* ValidTelomere without the probe of the character before the run
ValidTelomere_NoProbeBefore ==
  IF ~(length > min_length) THEN "no"
  ELSE IF ~(length < 1000) THEN "no"
  ELSE IF ~(trash = 0) THEN "no"
  ELSE IF ~InRange(text, position + length + 1) THEN "IndexError"
  ELSE IF ~(PyAt(text, position + length + 1) /= "\n") THEN "no"
  ELSE "yes"

\* ValidTelomere without `trash == 0`
ValidTelomere_IgnoresTrash ==
  IF ~(length > min_length) THEN "no"
  ELSE IF ~(length < 1000) THEN "no"
  ELSE IF ~InRange(text, position - 1) THEN "IndexError"
  ELSE IF ~(PyAt(text, position - 1) /= "\n") THEN "no"
  ELSE IF ~InRange(text, position + length + 1) THEN "IndexError"
  ELSE IF ~(PyAt(text, position + length + 1) /= "\n") THEN "no"
  ELSE "yes"

\* line 124 (and 187): the `and` chain, left to right, stopping at the first
\* false operand; an operand that indexes text out of range raises IndexError
ValidTelomere ==
  IF ~(length > min_length) THEN "no"
  ELSE IF ~(length < 1000) THEN "no"
  ELSE IF ~(trash = 0) THEN "no"
  ELSE IF ~InRange(text, position - 1) THEN "IndexError"
  ELSE IF ~(PyAt(text, position - 1) /= "\n") THEN "no"
  ELSE IF ~InRange(text, position + length + 1) THEN "IndexError"
  ELSE IF ~(PyAt(text, position + length + 1) /= "\n") THEN "no"
  ELSE "yes"

\* Context with the window of the module docstring (lines 12-13):
\* from position - (length + 50) to position + 50
Context_Docstring ==
  LET start_context == Max(0, position - (length + 50))
      end_context   == Min(L, position + 50)
      raw_context   == Slice(text, start_context, end_context)
      clean_context == Replace(raw_context, "\n", EndOfRead)
  IN  Replace(clean_context, "\t", <<" ">>)

\* lines 128-134 (and 191-197): the context of the run at `position`
Context ==
  LET start_context == Max(0, position - 50)
      end_context   == Min(L, position + (length + 50))
      raw_context   == Slice(text, start_context, end_context)
      clean_context == Replace(raw_context, "\n", EndOfRead)
  IN  Replace(clean_context, "\t", <<" ">>)

\* Validate with a cursor of its own for the outer loop: the next attempt
\* starts one past the start of this one
Validate_OwnCursor(outer) ==
  LET v == ValidTelomere IN
  /\ IF v = "IndexError"
     THEN /\ pc' = "fault"
          /\ UNCHANGED <<pos, index, results>>
     ELSE /\ pc' = outer
          /\ pos' = position + 1
          /\ IF v = "yes"
             THEN /\ index' = index + 1
                  /\ results' = Append(results,
                                  [index |-> index + 1, length |-> length,
                                   position |-> position, context |-> Context])
             ELSE UNCHANGED <<index, results>>
  /\ UNCHANGED <<text, min_length, length, position, trash, ac, gt, tt, gg>>

\* lines 124-137 (and 187-200): the `if`, the append, and `pos += 1`;
\* `outer` is the loop test that follows.  An IndexError ends the script.
Validate(outer) ==
  LET v == ValidTelomere IN
  /\ IF v = "IndexError"
     THEN /\ pc' = "fault"
          /\ UNCHANGED <<pos, index, results>>
     ELSE /\ pc' = outer
          /\ pos' = pos + 1
          /\ IF v = "yes"
             THEN /\ index' = index + 1
                  /\ results' = Append(results,
                                  [index |-> index + 1, length |-> length,
                                   position |-> position, context |-> Context])
             ELSE UNCHANGED <<index, results>>
  /\ UNCHANGED <<text, min_length, length, position, trash, ac, gt, tt, gg>>

\* lines 80-86 (and 143-149): a new attempt at `pos`
Reset(inner) ==
  /\ length' = 0
  /\ trash' = 0
  /\ ac' = 0
  /\ gt' = 0
  /\ tt' = 0
  /\ gg' = 0
  /\ position' = pos
  /\ pc' = inner
  /\ UNCHANGED <<text, min_length, pos, index, results, hitsA, exams, swapped>>

----------------------------------------------------------------------------
(* Strand A pass, lines 78-137                                              *)

\* NoiseCountA that counts only the character A
NoiseCountA_OnlyA == Count(text, "A", pos, pos + 15)

\* line 103
NoiseCountA == Count(text, "A", pos, pos + 15) + Count(text, "C", pos, pos + 15)

\* StartA with the loop test `pos <= L`
StartA_Inclusive == pc = "outerA" /\ pos <= L /\ Reset("innerA")

\* line 78 true, lines 80-86
StartA == pc = "outerA" /\ pos < L /\ Reset("innerA")

\* StepA with a consumed noise character resetting the counter tt
StepA_NoiseResetsTt ==
  /\ pc = "innerA"
  /\ pos < L
  /\ LET ch == PyAt(text, pos) IN
       IF ch = "G"
       THEN /\ StopRules(length + 1,
                         IF PyAt(text, pos - 1) = "T" THEN gt + 1 ELSE 0,
                         0, gg + 1, "validA")
            /\ ac' = ac
       ELSE IF ch = "T"
       THEN /\ StopRules(length + 1, gt, tt + 1, 0, "validA")
            /\ ac' = ac
       ELSE IF ch \in {"A", "C"}
       THEN IF NoiseCountA > 2
            THEN ac' = NoiseCountA /\ trash' = trash /\ Break("validA")
            ELSE ac' = 0 /\ StopRules(length + 1, gt, 0, gg, "validA")
       ELSE ac' = ac /\ trash' = 1 /\ Break("validA")
  /\ exams' = exams + 1
  /\ UNCHANGED <<text, min_length, position, index, results, hitsA, swapped>>

\* lines 87-121: one iteration of the inner loop
StepA ==
  /\ pc = "innerA"
  /\ pos < L
  /\ LET ch == PyAt(text, pos) IN
       IF ch = "G"
       THEN /\ StopRules(length + 1,
                         IF PyAt(text, pos - 1) = "T" THEN gt + 1 ELSE 0,
                         0, gg + 1, "validA")
            /\ ac' = ac
       ELSE IF ch = "T"
       THEN /\ StopRules(length + 1, gt, tt + 1, 0, "validA")
            /\ ac' = ac
       ELSE IF ch \in {"A", "C"}
       THEN IF NoiseCountA > 2
            THEN ac' = NoiseCountA /\ trash' = trash /\ Break("validA")
            ELSE ac' = 0 /\ StopRules(length + 1, gt, tt, gg, "validA")
       ELSE ac' = ac /\ trash' = 1 /\ Break("validA")
  /\ exams' = exams + 1
  /\ UNCHANGED <<text, min_length, position, index, results, hitsA, swapped>>

\* line 87 false: the inner loop ends at the end of the text
EndOfTextA ==
  /\ pc = "innerA"
  /\ ~(pos < L)
  /\ pc' = "validA"
  /\ UNCHANGED <<text, min_length, pos, length, position, trash, ac, gt, tt, gg,
                 index, results, hitsA, exams, swapped>>

\* lines 123-137
ValidateA ==
  /\ pc = "validA"
  /\ Validate("outerA")
  /\ hitsA' = Len(results')
  /\ UNCHANGED <<exams, swapped>>

\* EndA with the counter reset for the second pass
EndA_ResetsIndex ==
  /\ pc = "outerA"
  /\ ~(pos < L)
  /\ pos' = 0
  /\ pc' = "outerB"
  /\ index' = 0
  /\ exams' = 0
  /\ UNCHANGED <<text, min_length, length, position, trash, ac, gt, tt, gg,
                 results, hitsA, swapped>>

\* line 78 false, line 139
EndA ==
  /\ pc = "outerA"
  /\ ~(pos < L)
  /\ pos' = 0
  /\ pc' = "outerB"
  /\ exams' = 0
  /\ UNCHANGED <<text, min_length, length, position, trash, ac, gt, tt, gg,
                 index, results, hitsA, swapped>>

----------------------------------------------------------------------------
(* Strand B pass, lines 141-200                                             *)

\* NoiseCountB that counts only the character T
NoiseCountB_OnlyT == Count(text, "T", pos, pos + 15)

\* line 166
NoiseCountB == Count(text, "T", pos, pos + 15) + Count(text, "G", pos, pos + 15)

\* line 141 true, lines 143-149
StartB == pc = "outerB" /\ pos < L /\ Reset("innerB")

\* lines 150-184: one iteration of the inner loop
StepB ==
  /\ pc = "innerB"
  /\ pos < L
  /\ LET ch == PyAt(text, pos) IN
       IF ch = "C"
       THEN /\ StopRules(length + 1,
                         IF PyAt(text, pos - 1) = "A" THEN gt + 1 ELSE 0,
                         0, gg + 1, "validB")
            /\ ac' = ac
       ELSE IF ch = "A"
       THEN /\ StopRules(length + 1, gt, tt + 1, 0, "validB")
            /\ ac' = ac
       ELSE IF ch \in {"T", "G"}
       THEN IF NoiseCountB > 2
            THEN ac' = NoiseCountB /\ trash' = trash /\ Break("validB")
            ELSE ac' = 0 /\ StopRules(length + 1, gt, tt, gg, "validB")
       ELSE ac' = ac /\ trash' = 1 /\ Break("validB")
  /\ exams' = exams + 1
  /\ UNCHANGED <<text, min_length, position, index, results, hitsA, swapped>>

\* line 150 false
EndOfTextB ==
  /\ pc = "innerB"
  /\ ~(pos < L)
  /\ pc' = "validB"
  /\ UNCHANGED <<text, min_length, pos, length, position, trash, ac, gt, tt, gg,
                 index, results, hitsA, exams, swapped>>

\* lines 186-200
ValidateB ==
  /\ pc = "validB"
  /\ Validate("outerB")
  /\ UNCHANGED <<hitsA, exams, swapped>>

\* line 141 false: the scan is over (the table is written from `results`)
EndB ==
  /\ pc = "outerB"
  /\ ~(pos < L)
  /\ pc' = "done"
  /\ UNCHANGED <<text, min_length, pos, length, position, trash, ac, gt, tt, gg,
                 index, results, hitsA, exams, swapped>>

----------------------------------------------------------------------------
(* The inputs: the file's characters and --min                              *)

\* every text of at most MaxLen characters over Alphabet, as it is and
\* followed by a character that is no base
MaxLen == 4
Alphabet == {"G", "T", "A", "C", "\n"}
Tails == {<<>>, <<"N">>}
SmallTexts == {t \o e : t \in UNION {[1 .. k -> Alphabet] : k \in 0 .. MaxLen},
                        e \in Tails}
SmallMins == {0, 1}

\* u repeated n times
Rep(u, n) == [i \in 1 .. n * Len(u) |-> u[((i - 1) % Len(u)) + 1]]

\* the text with the roles of the strands exchanged: G <-> C, T <-> A
SwapChar(c) ==
  CASE c = "G" -> "C"
    [] c = "C" -> "G"
    [] c = "T" -> "A"
    [] c = "A" -> "T"
    [] OTHER   -> c
Swap(t) == [i \in 1 .. Len(t) |-> SwapChar(t[i])]

\* longer texts, one per rule of the scan (written for strand A)
RunTexts ==
  { \* four T in a row, then a lookahead character in range
    <<"T", "T", "T", "T", "G", "A", "G", "N">>,
    \* three T, one noise character, a fourth T
    <<"G", "T", "T", "T", "A", "T", "G", "G", "N">>,
    \* six G in a row; the same at the end of the text; the same in a text
    \* that ends with a newline
    Rep(<<"G">>, 6) \o <<"A", "T", "N">>,
    Rep(<<"G">>, 6),
    Rep(<<"G">>, 6) \o <<"A">>,
    Rep(<<"G">>, 6) \o <<"A", "A", "\n">>,
    Rep(<<"G">>, 6) \o <<"A", "\n", "N">>,
    \* eleven and ten TG pairs
    Rep(<<"T", "G">>, 11) \o <<"A", "A", "N">>,
    Rep(<<"T", "G">>, 10) \o <<"C", "C", "C", "N">>,
    \* sparse noise inside a run, dense noise after it
    <<"G", "T", "G", "A">> \o Rep(<<"G", "T">>, 8) \o <<"C", "C", "C", "N">>,
    <<"G", "T", "G", "C", "C", "C", "A", "C", "A", "G", "G", "G", "N">>,
    <<"G", "T", "G", "A", "C">> \o Rep(<<"G", "T">>, 7) \o <<"C", "C", "C", "N">>,
    <<"G", "T", "G", "C", "C", "C">> \o Rep(<<"G", "T">>, 7) \o <<"A", "A", "A", "N">>,
    <<"G", "C", "\n", "C", "C", "N">>,
    <<"G", "T", "G", "C", "C", "G", "T", "C", "\n">>,
    \* runs after a newline, a tab and another character
    <<"\n", "G", "T", "G", "C", "C", "C", "\t", "G", "T", "C", "C", "C", "N",
      "G", "C", "C", "C", "N">>,
    \* several runs of both strands
    <<"N", "C", "A", "C", "G", "G", "G", "T", "G", "T", "A", "A", "A", "C",
      "A", "T", "T", "T", "G", "C", "C", "C", "\n">>,
    \* a run more than 50 characters from both ends of the text, with a
    \* newline and a tab within 50 characters of it
    Rep(<<"N">>, 52) \o <<"\n", "N", "G", "T", "G", "T", "G", "C", "C", "C",
                          "\t", "\n">> \o Rep(<<"N">>, 55),
    \* a file in lower case; a sequence record with a header line and
    \* lower-case letters other than the four bases; a file with CR LF line
    \* ends
    <<"g", "t", "g", "c", "c", "c", "a", "n">>,
    <<"@", "r", "1", "\n", "n", "g", "t", "g", "c", "c", "c", "r", "y", "x",
      "\n", "+", "\n", "I", "i", "\n">>,
    <<"G", "T", "G", "C", "C", "C", "\r", "\n", "G", "T", "\r", "\n">>
  }
RunMins == {0, 3, 4}

\* a unit repeated up to MaxReps times, then what ends the run
MaxReps == 11
Units == {<<"G">>, <<"T">>, <<"T", "G">>, <<"G", "T">>, <<"T", "G", "G">>,
          <<"T", "T", "T", "G">>}
Ends == {<<>>, <<"N">>, <<"A", "N">>, <<"C", "C", "C", "N">>,
         <<"A", "\n", "N">>, <<"A", "A", "\n">>}
RepTexts == {Rep(u, n) \o e : u \in Units, n \in 1 .. MaxReps, e \in Ends}

\* texts for the default --min: 200 G; runs of 999, 1000 and 1002 characters
LongTexts ==
  { Rep(<<"G">>, 200),
    Rep(<<"T", "G", "G">>, 333) \o <<"C", "C", "C", "N">>,
    Rep(<<"T", "G", "G">>, 333) \o <<"T", "C", "C", "C", "N">>,
    Rep(<<"T", "G", "G">>, 334) \o <<"C", "C", "C", "N">> }
LongMins == {50}

Inputs ==
  (SmallTexts \X SmallMins)
    \cup ((RunTexts \cup {Swap(t) : t \in RunTexts}) \X RunMins)
    \cup ((RepTexts \cup {Swap(t) : t \in RepTexts}) \X RunMins)
    \cup (LongTexts \X LongMins)

----------------------------------------------------------------------------
(* The script                                                               *)

\* lines 36-76: the state when the first loop is reached
Init ==
  /\ \E inp \in Inputs :
       /\ text = read_all_upper(inp[1])
       /\ min_length = inp[2]
  /\ index = 0
  /\ length = 0
  /\ position = 0
  /\ trash = 0
  /\ ac = 0
  /\ gt = 0
  /\ tt = 0
  /\ gg = 0
  /\ results = <<>>
  /\ pos = 0
  /\ pc = "outerA"
  /\ hitsA = 0
  /\ exams = 0
  /\ swapped = "no"

Next ==
  \/ StartA
  \/ StepA
  \/ EndOfTextA
  \/ ValidateA
  \/ EndA
  \/ StartB
  \/ StepB
  \/ EndOfTextB
  \/ ValidateB
  \/ EndB

Spec == Init /\ [][Next]_vars

\* the interpreter runs the script's next statement as long as there is one
FairSpec == Spec /\ WF_vars(Next)

----------------------------------------------------------------------------
(* The two passes side by side: the strand A pass on the input, then the    *)
(* strand B pass, from its line 139, on the text with the base roles        *)
(* swapped.  The strand B pass is run whether the strand A pass came to its *)
(* end or raised IndexError; swapped records which.                         *)

SwapRoles ==
  /\ swapped = "no"
  /\ \/ pc = "outerA" /\ ~(pos < L) /\ swapped' = "done"
     \/ pc = "fault" /\ swapped' = "fault"
  /\ text' = Swap(text)
  /\ pos' = 0
  /\ pc' = "outerB"
  /\ exams' = 0
  /\ UNCHANGED <<min_length, length, position, trash, ac, gt, tt, gg,
                 index, results, hitsA>>

NextSwap ==
  \/ StartA
  \/ StepA
  \/ EndOfTextA
  \/ ValidateA
  \/ SwapRoles
  \/ StartB
  \/ StepB
  \/ EndOfTextB
  \/ ValidateB
  \/ EndB

SpecSwap == Init /\ [][NextSwap]_vars

----------------------------------------------------------------------------
(* Vocabulary of the properties                                             *)

InPassA == pc \in {"outerA", "innerA", "validA"}
InPassB == pc \in {"outerB", "innerB", "validB"}
AtValid == pc \in {"validA", "validB"}

\* the record the `append` of lines 136 and 199 adds for the attempt at hand
Hit == [index |-> index + 1, length |-> length, position |-> position,
        context |-> Context]
Emits == results' = Append(results, Hit)

\* the acceptance criteria as the specification words them: a probe outside
\* the text finds no line separator
BeforeIsSeparator == position > 0 /\ PyAt(text, position - 1) = "\n"
LookaheadOutside == position + length + 1 >= L
LookaheadIsSeparator ==
  ~LookaheadOutside /\ PyAt(text, position + length + 1) = "\n"
OtherCriteria ==
  length > min_length /\ length < 1000 /\ trash = 0 /\ ~BeforeIsSeparator

----------------------------------------------------------------------------
\* C1: the scan never faults on a boundary probe: a candidate that passes the
\* other acceptance criteria and whose lookahead offset position + length + 1
\* is at or past the end of the text is emitted, and no step reads out of
\* range.  (The script raises IndexError there.)
C1_LookaheadOutsideIsEmitted ==
  [][ /\ pc' /= "fault"
      /\ (AtValid /\ OtherCriteria /\ LookaheadOutside) => Emits ]_vars

----------------------------------------------------------------------------
\* C2: after an attempt that started at offset p the next attempt of the pass
\* starts at p + 1, whether or not the run was accepted and however far the
\* attempt scanned, so that every offset of the text is a candidate start.
\* (The script's outer loop and attempt loop share the cursor pos: the next
\* attempt starts one past the offset where this one stopped.)
C2_NextStartIsStartPlusOne ==
  [][ (AtValid /\ pc' \in {"outerA", "outerB"}) => pos' = position + 1 ]_vars

----------------------------------------------------------------------------
G200 == Rep(<<"G">>, 200)

\* C3, as claimed: 200 G with min_length = 50 give exactly one strand A hit,
\* of length 200 at position 0.
C3_OneHitOfLength200 ==
  (text = G200 /\ min_length = 50 /\ ~InPassA) =>
    /\ hitsA = 1
    /\ results[1].length = 200
    /\ results[1].position = 0

\* C3, amended: 200 G with min_length = 50 give no strand A hit: every
\* attempt is stopped by the rule gg > 5 with length 6 (the last one, at
\* offset 198, by the end of the text with length 2), and 6 is not more
\* than 50.
C3_NoHitRunsOfSix ==
  (text = G200 /\ min_length = 50) =>
    /\ hitsA = 0
    /\ InPassA => results = <<>>
    /\ pc = "validA" =>
         \/ length = 6 /\ gg = 6 /\ position % 6 = 0
         \/ length = 2 /\ position = 198 /\ pos = L

\* the strand A pass over the 200 G is complete
C3_Witness == text = G200 /\ min_length = 50 /\ pc = "outerB" /\ pos = 0

----------------------------------------------------------------------------
\* C4: a run at offset 0 is not rejected because of the character `before`
\* offset 0: when it meets the other criteria (here with the lookahead
\* offset inside the text) it is emitted, whatever the last character of the
\* text is.  (The script reads text[-1], the last character.)
C4_RunAtOffsetZeroIsEmitted ==
  [][ ( /\ AtValid
        /\ position = 0
        /\ OtherCriteria
        /\ ~LookaheadOutside
        /\ ~LookaheadIsSeparator ) => Emits ]_vars

----------------------------------------------------------------------------
\* C5: every hit of the result list has min_length < length < 1000.
C5_LengthBounds ==
  \A k \in 1 .. Len(results) :
    min_length < results[k].length /\ results[k].length < 1000

\* a hit of the greatest length, 999, has been emitted
C5_Witness ==
  \E k \in 1 .. Len(results) : results[k].length = 999 /\ min_length = 50

----------------------------------------------------------------------------
Bases == {"G", "T", "A", "C"}

\* C6: an attempt that meets a character that is none of the strand's primary,
\* secondary and noise characters ends with trash = 1, and an attempt that
\* ends with trash = 1 adds nothing to the result list.
C6_TrashIsNeverEmitted ==
  [][ /\ (pc \in {"innerA", "innerB"} /\ pos < L /\ PyAt(text, pos) \notin Bases)
           => (trash' = 1 /\ pc' \in {"validA", "validB"})
      /\ (AtValid /\ trash = 1) => (results' = results /\ index' = index) ]_vars

\* an attempt ended by such a character, which every other criterion accepts
C6_Witness ==
  /\ AtValid
  /\ trash = 1
  /\ gt <= 10
  /\ PyAt(text, pos) \notin Bases
  /\ length > min_length
  /\ length < 1000
  /\ ~BeforeIsSeparator
  /\ ~LookaheadOutside
  /\ ~LookaheadIsSeparator

----------------------------------------------------------------------------
\* C7: the result list is the strand A hits in strictly ascending position,
\* then the strand B hits in strictly ascending position; the k-th record
\* has index k, the one counter running on through both passes.
C7_OrderAndIndex ==
  /\ index = Len(results)
  /\ hitsA <= Len(results)
  /\ InPassA => hitsA = Len(results)
  /\ \A k \in 1 .. Len(results) : results[k].index = k
  /\ \A j, k \in 1 .. hitsA :
       j < k => results[j].position < results[k].position
  /\ \A j, k \in (hitsA + 1) .. Len(results) :
       j < k => results[j].position < results[k].position

\* two hits of each strand, the first of strand B before the last of strand A
C7_Witness ==
  /\ hitsA >= 2
  /\ Len(results) >= hitsA + 2
  /\ results[hitsA + 1].position < results[hitsA].position

----------------------------------------------------------------------------
\* the strand's secondary character
Secondary == IF pc \in {"innerA", "validA"} THEN "T" ELSE "A"

\* C8, as claimed: an attempt stopped by the rule tt > 3 produces a hit only
\* if the run before the stopping secondary character, length - 1
\* characters, is longer than min_length.
C8_PrefixExceedsMin ==
  [][ (AtValid /\ tt > 3 /\ results' /= results) => length - 1 > min_length ]_vars

\* C8, amended: an attempt stopped by the rule tt > 3 ends with trash = 0 at
\* the secondary character that made tt 4; that character is counted in
\* length, and the attempt produces a hit only if length, that character
\* included, is more than min_length.
C8_RunWithStopExceedsMin ==
  [][ (AtValid /\ tt > 3) =>
        /\ trash = 0
        /\ tt = 4
        /\ pos < L
        /\ PyAt(text, pos) = Secondary
        /\ length = pos - position + 1
        /\ results' /= results => (Emits /\ length > min_length) ]_vars

\* a run stopped by tt > 3 whose length is min_length + 1 is about to be
\* emitted
C8_Witness ==
  /\ AtValid
  /\ tt > 3
  /\ length - 1 = min_length
  /\ ValidTelomere = "yes"

----------------------------------------------------------------------------
\* the strand's noise characters in the window [pos, pos + 15), clipped
NoiseSet == IF pc \in {"innerA", "validA"} THEN {"A", "C"} ELSE {"T", "G"}
NoiseInWindow ==
  Cardinality({k \in pos .. (Min(pos + 15, L) - 1) : PyAt(text, k) \in NoiseSet})
AtNoise == pc \in {"innerA", "innerB"} /\ pos < L /\ PyAt(text, pos) \in NoiseSet

\* C9: at a noise character whose window holds more than 2 noise characters
\* the attempt stops there, the character not counted and trash not set, and
\* the run is emitted when its length exceeds min_length and the other
\* acceptance criteria hold; with at most 2 the character is consumed.
\* (The script drops such a run at offset 0 of a text that ends with a
\* newline: C4.)
C9_NoiseStopStillEmits ==
  [][ /\ (AtNoise /\ NoiseInWindow > 2) =>
           /\ pos' = pos
           /\ length' = length
           /\ trash' = 0
           /\ pc' \in {"validA", "validB"}
      /\ (AtNoise /\ NoiseInWindow <= 2) =>
           /\ pos' = pos + 1
           /\ length' = length + 1
           /\ pc' = pc
      /\ ( /\ AtValid
           /\ ac > 2
           /\ OtherCriteria
           /\ ~LookaheadIsSeparator ) => Emits ]_vars

----------------------------------------------------------------------------
\* what the context shows for one character of the text
Shown(c) == IF c = "\n" THEN EndOfRead ELSE IF c = "\t" THEN <<" ">> ELSE <<c>>

\* the characters at offsets lo .. hi - 1 of the text, each as it is shown
RECURSIVE ShownText(_, _)
ShownText(lo, hi) ==
  IF lo >= hi THEN <<>>
  ELSE IF hi = lo + 1 THEN Shown(PyAt(text, lo))
  ELSE LET mid == (lo + hi) \div 2
       IN  ShownText(lo, mid) \o ShownText(mid, hi)

\* C10: the context of every hit is the text from max(0, position - 50) to
\* min(len(text), position + length + 50), each newline replaced by
\* END OF READ and each tab by a space; no context holds a newline or a tab.
C10_ContextOfHit ==
  \A k \in 1 .. Len(results) :
    LET h == results[k] IN
    /\ h.context = ShownText(IF h.position - 50 > 0 THEN h.position - 50 ELSE 0,
                             IF h.position + h.length + 50 < L
                             THEN h.position + h.length + 50 ELSE L)
    /\ \A j \in 1 .. Len(h.context) : h.context[j] \notin {"\n", "\t"}

\* a hit more than 50 characters from both ends of the text, with a newline
\* and a tab in the 50 characters around it
C10_Witness ==
  \E k \in 1 .. Len(results) :
    LET h == results[k] IN
    /\ h.position > 50
    /\ h.position + h.length + 50 < L
    /\ \E j \in (h.position - 50) .. (h.position - 1) : PyAt(text, j) = "\n"
    /\ \E j \in (h.position + h.length) .. (h.position + h.length + 49) :
         PyAt(text, j) = "\t"

----------------------------------------------------------------------------
\* the string m stands in s from index j on (1-based)
OccursAt(s, m, j) ==
  j >= 1 /\ j + Len(m) - 1 <= Len(s) /\ SubSeq(s, j, j + Len(m) - 1) = m

\* C11 (module docstring, lines 11-14): the marker END OF READ is added to a
\* context only when the raw slice ends with a newline, and then only at
\* the end: it never stands in the interior of a context.  (The script
\* replaces every newline of the slice, wherever it is.)
C11_MarkerOnlyAtEnd ==
  \A k \in 1 .. Len(results) :
    LET h  == results[k]
        hi == Min(L, h.position + h.length + 50)
    IN  \A j \in 1 .. Len(h.context) :
          OccursAt(h.context, EndOfRead, j) =>
            /\ PyAt(text, hi - 1) = "\n"
            /\ j = Len(h.context) - Len(EndOfRead) + 1

----------------------------------------------------------------------------
\* C12: every hit at a position > 0 has no newline just before it, and no
\* hit has a newline at the lookahead offset position + length + 1 when
\* that offset is inside the text.
C12_NoSeparatorAround ==
  \A k \in 1 .. Len(results) :
    LET h == results[k] IN
    /\ h.position > 0 => PyAt(text, h.position - 1) /= "\n"
    /\ h.position + h.length + 1 < L =>
         PyAt(text, h.position + h.length + 1) /= "\n"

\* a hit at a position > 0 stands in the list, in a text where another run
\* starts just after a newline
C12_Witness ==
  /\ \E k \in 1 .. Len(results) : results[k].position > 0
  /\ \E j \in 1 .. (L - 2) :
       /\ PyAt(text, j - 1) = "\n"
       /\ PyAt(text, j) \in Bases
       /\ PyAt(text, j + 1) \in Bases

----------------------------------------------------------------------------
\* C13: on the empty text neither pass makes an attempt or reads a
\* character, and the scan ends with no result and index = 0.
C13_EmptyText ==
  text = <<>> =>
    /\ pc \in {"outerA", "outerB", "done"}
    /\ results = <<>>
    /\ index = 0
    /\ pos = 0
    /\ length = 0
    /\ position = 0

\* the scan of the empty text is over
C13_Witness == text = <<>> /\ pc = "done"

----------------------------------------------------------------------------
\* the noise set of the strand that produced the k-th record, and the number
\* of its characters in the 15 offsets from q on, clipped at the end of text
NoiseOf(k) == IF k <= hitsA THEN {"A", "C"} ELSE {"T", "G"}
WindowNoise(k, q) ==
  Cardinality({j \in q .. (Min(q + 15, L) - 1) : PyAt(text, j) \in NoiseOf(k)})
Span(k) == results[k].position .. (results[k].position + results[k].length - 1)

\* C14, as claimed: every window of 15 offsets that starts inside the span
\* of a hit holds at most 2 noise characters of the hit's strand.
C14_EveryWindowSparse ==
  \A k \in 1 .. Len(results) : \A q \in Span(k) : WindowNoise(k, q) <= 2

\* C14, amended: every window of 15 offsets that starts at a noise character
\* inside the span of a hit holds at most 2 noise characters of the hit's
\* strand (the window that starts at a primary or secondary character just
\* before the noise that stopped the run may hold more).
C14_WindowsAtNoiseSparse ==
  \A k \in 1 .. Len(results) : \A q \in Span(k) :
    PyAt(text, q) \in NoiseOf(k) => WindowNoise(k, q) <= 2

\* a hit whose span holds a noise character with a second one in its window
C14_Witness ==
  \E k \in 1 .. Len(results) : \E q \in Span(k) :
    PyAt(text, q) \in NoiseOf(k) /\ WindowNoise(k, q) = 2

----------------------------------------------------------------------------
Primary == IF pc \in {"innerA", "validA"} THEN "G" ELSE "C"
InAttempt == pc \in {"innerA", "validA", "innerB", "validB"}
\* the offset of the last consumed character of the attempt at hand
LastConsumed == position + length - 1

\* the secondary characters that end, one next to the other, at offset q
RECURSIVE TrailingSecondary(_)
TrailingSecondary(q) ==
  IF q < position \/ PyAt(text, q) /= Secondary THEN 0
  ELSE 1 + TrailingSecondary(q - 1)

\* the secondary characters consumed up to offset q since the last primary
\* character of the attempt
RECURSIVE SecondarySincePrimary(_)
SecondarySincePrimary(q) ==
  IF q < position \/ PyAt(text, q) = Primary THEN 0
  ELSE (IF PyAt(text, q) = Secondary THEN 1 ELSE 0) + SecondarySincePrimary(q - 1)

\* C15, as claimed: the counter tt is the number of secondary characters
\* that end in a row at the last consumed character, so the rule tt > 3
\* stops an attempt only at the fourth of 4 secondary characters in a row.
C15_TtCountsConsecutive ==
  InAttempt => tt = TrailingSecondary(LastConsumed)

\* C15, amended: the counter tt is the number of secondary characters
\* consumed since the last consumed primary character (or since the start of
\* the attempt); a consumed noise character leaves it as it is, so the rule
\* tt > 3 stops an attempt at the fourth secondary character consumed with
\* no primary character between them.
C15_TtCountsSincePrimary ==
  InAttempt =>
    /\ tt = SecondarySincePrimary(LastConsumed)
    /\ (AtValid /\ tt > 3) =>
         /\ tt = 4
         /\ pos = LastConsumed
         /\ PyAt(text, pos) = Secondary

\* an attempt stopped by the rule at a secondary character that has a noise
\* character between it and the one before
C15_Witness ==
  /\ AtValid
  /\ tt > 3
  /\ TrailingSecondary(LastConsumed) < 4

----------------------------------------------------------------------------
PrimaryOf(k) == IF k <= hitsA THEN "G" ELSE "C"
SecondaryOf(k) == IF k <= hitsA THEN "T" ELSE "A"

\* the primary characters of the k-th hit that end at offset q, follow one
\* another among the primary characters of the span and each stand just
\* after a secondary character
RECURSIVE AdjacentRun(_, _)
AdjacentRun(k, q) ==
  IF q < results[k].position THEN 0
  ELSE IF PyAt(text, q) /= PrimaryOf(k) THEN AdjacentRun(k, q - 1)
  ELSE IF q > 0 /\ PyAt(text, q - 1) = SecondaryOf(k)
       THEN 1 + AdjacentRun(k, q - 1)
       ELSE 0

\* C16: an attempt in which gt exceeds 10 ends with trash = 1, and no hit
\* holds 11 primary characters that follow one another among its primary
\* characters, each just after a secondary character (so no hit holds 11
\* secondary/primary pairs in a row).
C16_AdjacencyIsCapped ==
  /\ (InAttempt /\ gt > 10) => (AtValid /\ trash = 1)
  /\ \A k \in 1 .. Len(results) : \A q \in Span(k) : AdjacentRun(k, q) <= 10

\* an attempt long enough to be a hit was stopped by the rule gt > 10
C16_Witness == AtValid /\ gt > 10 /\ length > min_length /\ length < 1000

----------------------------------------------------------------------------
\* the j-th and the next record of results come from the same pass
SamePass(j) == j + 1 <= hitsA \/ j > hitsA

\* C19: hits of one pass never overlap: of two consecutive hits of a pass the
\* second starts at or after position + length of the first.
C19_NoOverlapWithinPass ==
  \A j \in 1 .. (Len(results) - 1) :
    SamePass(j) =>
      results[j + 1].position >= results[j].position + results[j].length

\* two consecutive hits of one pass, the second right after the span of the
\* first
C19_Witness ==
  \E j \in 1 .. (Len(results) - 1) :
    /\ SamePass(j)
    /\ results[j + 1].position = results[j].position + results[j].length

----------------------------------------------------------------------------
\* the attempt at hand stopped on one of the rules tt > 3, gg > 5, gt > 10
CounterStop == tt > 3 \/ gg > 5 \/ gt > 10

\* C20: the span of every hit lies inside the text and holds only the
\* characters G, T, A, C; at the end of an attempt length is
\* pos - position + 1 after a stop on a counter rule, and pos - position
\* after a stop on the noise rule, on an unrecognized character or at the
\* end of the text.
C20_LengthIsSpan ==
  /\ \A k \in 1 .. Len(results) :
       /\ results[k].position >= 0
       /\ results[k].position + results[k].length <= L
       /\ \A q \in Span(k) : PyAt(text, q) \in Bases
  /\ AtValid =>
       /\ CounterStop => (pos < L /\ length = pos - position + 1)
       /\ ~CounterStop =>
            /\ length = pos - position
            /\ \/ pos = L
               \/ pos < L /\ PyAt(text, pos) \in NoiseSet /\ ac > 2 /\ trash = 0
               \/ pos < L /\ PyAt(text, pos) \notin Bases /\ trash = 1
       /\ \A q \in position .. (position + length - 1) : PyAt(text, q) \in Bases

\* an attempt that consumed a noise character stopped on a counter rule after
\* a hit was recorded
C20_Witness ==
  /\ AtValid
  /\ CounterStop
  /\ results /= <<>>
  /\ \E q \in position .. (position + length - 1) : PyAt(text, q) \in NoiseSet

----------------------------------------------------------------------------
Terminated == pc \in {"done", "fault"}

\* C18: each pass terminates: within a pass the cursor pos never decreases,
\* every outer iteration leaves it at least one past the offset the attempt
\* started at, and the attempt loop examines each offset at most once, so
\* at most L characters in one pass; the script reaches its end (or the
\* IndexError that ends it).
C18_PassesTerminate ==
  /\ [](/\ exams <= L
        /\ pc \in {"outerA", "innerA", "outerB", "innerB"} => exams <= pos
        /\ AtValid => exams <= pos + 1)
  /\ [][ /\ ((InPassA /\ InPassA') \/ (InPassB /\ InPassB')) => pos' >= pos
         /\ (AtValid /\ pc' \in {"outerA", "outerB"}) => pos' > position
         /\ (pc \in {"innerA", "innerB"} /\ exams' = exams + 1) =>
              (pos < L /\ pos' \in {pos, pos + 1})
       ]_vars
  /\ <>Terminated

\* the script is over and its second pass examined every offset of a text
\* of more than one character
C18_Witness == pc = "done" /\ L > 1 /\ exams = L

----------------------------------------------------------------------------
\* the (length, position) pairs of the records lo .. hi of results
PairsOf(lo, hi) ==
  [k \in 1 .. (hi - lo + 1) |->
     <<results[lo + k - 1].length, results[lo + k - 1].position>>]

\* C17: the strand B pass is the strand A pass with the base roles swapped:
\* run on the text with G<->C and T<->A swapped it accepts the same
\* (length, position) pairs, in the same order, as the strand A pass on the
\* text itself, and it raises IndexError exactly when the strand A pass does.
C17_SwappedPassAgrees ==
  swapped /= "no" =>
    /\ Len(results) - hitsA <= hitsA
    /\ PairsOf(hitsA + 1, Len(results)) = PairsOf(1, Len(results) - hitsA)
    /\ Terminated =>
         /\ (pc = "fault") <=> (swapped = "fault")
         /\ Len(results) - hitsA = hitsA

\* both passes raised IndexError after accepting a run
C17_Witness == swapped = "fault" /\ pc = "fault" /\ hitsA >= 1

====
